---- MODULE Spec2Model ----
(***************************************************************************)
(* Model of the video captioning dispatcher (src/main.py) and of its       *)
(* maintenance utility (src/clean_and_format_captions.py).                 *)
(*                                                                         *)
(* File names are sequences of name tokens (<<"a", ".mp4">> is a.mp4),     *)
(* response texts are sequences of one-character strings.  Time is the     *)
(* wall clock in whole seconds, measured from the start of a run.          *)
(***************************************************************************)
EXTENDS Integers, Sequences, FiniteSets, TLC

(***************************************************************************)
(* Bounds of the model.                                                    *)
(***************************************************************************)
\* the input directory holds the first NumFiles names of FileUniverse
NumFiles == 3
\* number of dispatcher runs (process invocations) in one behaviour
MaxRuns == 2
\* one-second clock steps per run that are not a jump to a wake-up time
MaxTicks == 1
\* the configured concurrency and rpm budget range over 1..MaxConfig
MaxConfig == 2
\* token counts are taken within TokenSpread of 0 and of each tier boundary
TokenSpread == 1

\* width of the sliding window in seconds (main.py:303, main.py:306)
Window == 60

\* Python's None, told apart from every text
None == <<"None">>

(***************************************************************************)
(* Small helpers.                                                          *)
(***************************************************************************)
Min(S) == CHOOSE x \in S : \A y \in S : x <= y

Max2(a, b) == IF a >= b THEN a ELSE b

Range(s) == {s[i] : i \in 1..Len(s)}

\* every ordering of the elements of the sequence s
Orderings(s) ==
    {p \in [1..Len(s) -> Range(s)] :
        \A i, j \in 1..Len(s) : i # j => p[i] # p[j]}

(***************************************************************************)
(* File names.                                                             *)
(***************************************************************************)
ExtTokens == {".mp4", ".mov", ".avi", ".MP4", ".json", ".txt"}

\* str.lower() on a name token: the only token with upper-case letters
LowerToken(tok) == IF tok = ".MP4" THEN ".mp4" ELSE tok

Lower(name) == [i \in 1..Len(name) |-> LowerToken(name[i])]

\* str.endswith(suffix) on token sequences
EndsWith(name, suffix) ==
    /\ Len(name) >= Len(suffix)
    /\ SubSeq(name, Len(name) - Len(suffix) + 1, Len(name)) = suffix

EndsWithAny(name, suffixes) == \E s \in suffixes : EndsWith(name, s)

\* os.path.splitext(f)[0]: the name without its last extension; a name that
\* is only an extension (a leading dot) keeps it
splitext0(name) ==
    IF Len(name) > 1 /\ name[Len(name)] \in ExtTokens
    THEN SubSeq(name, 1, Len(name) - 1)
    ELSE name

VideoSuffixes == {<<".mp4">>, <<".mov">>, <<".avi">>}

\* the directory listing order of the input root (os.listdir)
FileUniverse ==
    << <<"a", ".mp4">>, <<"a", ".mov">>, <<"notes", ".txt">>, <<"b", ".MP4">>,
       <<"c", ".avi">>, <<"c", ".mp4">> >>

InputListing == SubSeq(FileUniverse, 1, Min({NumFiles, Len(FileUniverse)}))

\* the output path of an item: main.py:328-329
output_path(video_file) == splitext0(video_file) \o <<".json">>

(***************************************************************************)
(* Response texts and the JSON objects they hold.                          *)
(*                                                                         *)
(* A text is a sequence of one-character strings.  The characters "k", "u" *)
(* and "f" each stand for one well-formed member ("key": value) of a JSON  *)
(* object, NL is white space, any other character is text that JSON does   *)
(* not accept inside an object.  A dict is a function from key names to    *)
(* values; every value is a text.                                          *)
(***************************************************************************)
NL == "\n"

MemberChars == {"k", "u", "f"}

MemberKey(ch) ==
    CASE ch = "u" -> "usage_metadata"
      [] ch = "f" -> "file_metadata"
      [] OTHER    -> "k"

EmptyDict == [key \in {} |-> <<>>]

\* {**a, **b}: the keys of b win
Merge(a, b) ==
    [key \in DOMAIN a \cup DOMAIN b |-> IF key \in DOMAIN b THEN b[key] ELSE a[key]]

StripSpace(s) ==
    LET NotSpace(ch) == ch # NL IN SelectSeq(s, NotSpace)

\* the members of an object text: member (, member)*, or nothing
MembersOk(inner) ==
    \/ inner = <<>>
    \/ /\ Len(inner) % 2 = 1
       /\ \A i \in 1..Len(inner) :
             IF i % 2 = 1 THEN inner[i] \in MemberChars ELSE inner[i] = ","

\* json.loads(s) returns instead of raising JSONDecodeError
JsonParses(s) ==
    LET t == StripSpace(s) IN
    /\ Len(t) >= 2
    /\ t[1] = "{"
    /\ t[Len(t)] = "}"
    /\ MembersOk(SubSeq(t, 2, Len(t) - 1))

\* the dict json.loads(s) returns when it parses
JsonObject(s) ==
    LET t == StripSpace(s)
        keys == {MemberKey(t[i]) : i \in {j \in 1..Len(t) : t[j] \in MemberChars}}
    IN  [key \in keys |-> <<"1">>]

StartsWith(s, prefix) ==
    /\ Len(s) >= Len(prefix)
    /\ SubSeq(s, 1, Len(prefix)) = prefix

\* s[from:to] of Python for from >= 0 (0-based, to exclusive, to < 0 counts
\* from the end)
Slice(s, from, to) ==
    LET stop == IF to < 0 THEN Max2(Len(s) + to, 0) ELSE Min({to, Len(s)})
    IN  IF from + 1 > stop THEN <<>> ELSE SubSeq(s, from + 1, stop)

\* str.find(ch) and str.rfind(ch): 0-based index, -1 when absent
Find(s, ch) ==
    IF \E i \in 1..Len(s) : s[i] = ch
    THEN Min({i \in 1..Len(s) : s[i] = ch}) - 1
    ELSE -1

RFind(s, ch) ==
    IF \E i \in 1..Len(s) : s[i] = ch
    THEN (CHOOSE i \in 1..Len(s) : s[i] = ch /\ \A j \in i+1..Len(s) : s[j] # ch) - 1
    ELSE -1

\* BQ stands for the backquote character of a markdown fence
BQ == "^"

FenceJson == <<BQ, BQ, BQ, "j", "s", "o", "n">>

Fence == <<BQ, BQ, BQ>>

ParseFailed == <<"JSON parse failed">>

\* main.py:335-338: the markdown fence is cut off by position
StripFence(result) ==
    IF StartsWith(result, FenceJson) THEN Slice(result, 7, -3)
    ELSE IF StartsWith(result, Fence) THEN Slice(result, 3, -3)
    ELSE result

Envelope(text) == [key \in {"caption", "error"} |->
                      IF key = "caption" THEN text ELSE ParseFailed]

\* what stands for an exception that leaves the try block of main.py:331-362
Raised == [key \in {"raised"} |-> <<"Exception">>]

\* a normalizer without the fallback: a text that does not parse raises
caption_data_raises(result) ==
    LET text  == StripFence(result)
        start == Find(text, "{")
        end   == RFind(text, "}")
    IN  IF start # -1 /\ end # -1 /\ JsonParses(Slice(text, start, end + 1))
        THEN JsonObject(Slice(text, start, end + 1))
        ELSE Raised

\* main.py:340-350: caption_data of a truthy result; the bare `except:` turns
\* every failure of json.loads into the envelope
caption_data(result) ==
    LET text  == StripFence(result)
        start == Find(text, "{")
        end   == RFind(text, "}")
    IN  IF start # -1 /\ end # -1 /\ JsonParses(Slice(text, start, end + 1))
        THEN JsonObject(Slice(text, start, end + 1))
        ELSE Envelope(text)

\* the content of a file whose json.dump (main.py:359) did not come to its end
Partial == [key \in {"partial"} |-> <<"{">>]

\* main.py:333: `if result:` - None and the empty string are falsy
Truthy(result) == result # None /\ result # <<>>

UsageMeta == <<"usage">>

FileMeta == <<"file">>

\* the metadata process_video returns with a result: main.py:228-231
Metadata == [key \in {"usage_metadata", "file_metadata"} |->
                IF key = "usage_metadata" THEN UsageMeta ELSE FileMeta]

\* main.py:352-356
output_data(result) ==
    IF caption_data(result) = Raised THEN Raised
    ELSE Merge(caption_data(result), Metadata)

(***************************************************************************)
(* calculate_cost: main.py:57-110.  Prices are in thousandths of a dollar  *)
(* per million tokens, costs in millionths of a dollar (the six decimals   *)
(* round(x, 6) keeps).  A model name is a sequence of name tokens.         *)
(***************************************************************************)
\* str.lower() on a token of a model name
LowerModelToken(tok) == IF tok = "Qwen3-VL-Flash" THEN "qwen3-vl-flash" ELSE tok

\* `key in model.lower()`
InModel(key, model) == \E i \in 1..Len(model) : LowerModelToken(model[i]) = key

\* main.py:63, main.py:66: the upper ends of the two lower tiers
TierOneLimit == 32000

TierTwoLimit == 128000

\* a first tier that ends one token early
flash_prices_early(input_tokens) ==
    IF input_tokens < TierOneLimit THEN [input |-> 50, output |-> 400]
    ELSE IF input_tokens <= TierTwoLimit THEN [input |-> 75, output |-> 600]
    ELSE [input |-> 120, output |-> 960]

\* main.py:63-71
flash_prices(input_tokens) ==
    IF input_tokens <= TierOneLimit THEN [input |-> 50, output |-> 400]
    ELSE IF input_tokens <= TierTwoLimit THEN [input |-> 75, output |-> 600]
    ELSE [input |-> 120, output |-> 960]

\* main.py:85-90: the table, in the order the loop of main.py:93 walks it
pricing_keys == <<"qwen-vl-max", "qwen-vl-plus", "qwen3-vl-plus", "qwen-vl-turbo">>

pricing(key) ==
    CASE key = "qwen-vl-max"   -> [input |-> 2800, output |-> 8400]
      [] key = "qwen-vl-plus"  -> [input |-> 1120, output |-> 2800]
      [] key = "qwen3-vl-plus" -> [input |-> 1120, output |-> 2800]
      [] key = "qwen-vl-turbo" -> [input |-> 280, output |-> 840]

\* main.py:92-96: the first key of the table found in the name, else the
\* default
model_key(model) ==
    LET hits == {i \in 1..Len(pricing_keys) : InModel(pricing_keys[i], model)}
    IN  IF hits = {} THEN "qwen-vl-plus" ELSE pricing_keys[Min(hits)]

\* round(x, 6) of a cost of n thousandths of a millionth of a dollar: to the
\* nearest millionth, a tie to the even one
Round6(n) ==
    LET q == n \div 1000
        r == n % 1000
    IN  IF r < 500 THEN q
        ELSE IF r > 500 THEN q + 1
        ELSE IF q % 2 = 0 THEN q ELSE q + 1

calculate_cost(input_tokens, output_tokens, model) ==
    LET tiered == InModel("qwen3-vl-flash", model)
        price  == IF tiered THEN flash_prices(input_tokens)
                  ELSE pricing(model_key(model))
    IN  [input_cost_usd  |-> Round6(input_tokens * price.input),
         output_cost_usd |-> Round6(output_tokens * price.output),
         total_cost_usd  |-> Round6(input_tokens * price.input
                                    + output_tokens * price.output),
         pricing_model   |-> IF tiered THEN "qwen3-vl-flash-tiered"
                             ELSE model_key(model)]

(***************************************************************************)
(* State.                                                                  *)
(***************************************************************************)
VARIABLES
    input_dir,          \* names of the files in the input root
    output_dir,         \* the output root: file name -> dict written to it
    concurrency,        \* settings: vid_caption.concurrency
    max_rpm,            \* settings: the request budget per minute
    max_items,          \* settings: vid_caption.max_items
    shuffle,            \* settings: vid_caption.shuffle
    run,                \* number of dispatcher runs started so far
    phase,              \* "idle": no run in progress, "running": inside main()
    video_files,        \* the batch of the current run
    fut,                \* per item: "pending", "running", "finished", "collected"
    result,             \* per item: what process_video returned (None or a text)
    outcome,            \* per item: how the client call ended
    pc,                 \* per worker thread: where it is
    task,               \* per worker thread: index of its item
    wake,               \* per worker thread: when its time.sleep returns
    seen,               \* per worker thread: what its capacity check found
    done_at,            \* per worker thread: when its latest item was finished
    rpm_lock,           \* holder of rpm_lock, 0 when free
    request_timestamps, \* the deque of admission timestamps
    now,                \* time.time(), seconds since the run started
    ticks,              \* one-second clock steps taken in this run
    main_wake,          \* when the pacing sleep of the main thread returns
    calls,              \* per item: MultiModalConversation.call invocations
    pv_errors,          \* per item: logging.error lines of process_video
    failed_log,         \* per item: failure lines of the main loop
    admitted,           \* every timestamp appended in this run, in order
    grants,             \* for every such append: the check it was granted on
    admitted_items,     \* the items whose admission timestamp was appended
    writers,            \* every artifact write so far: which item wrote which path
    selected,           \* what get_video_files saw and returned in the latest run
    run_limit,          \* how many times the operator starts the dispatcher
    tick_limit,         \* one-second clock steps the environment takes in a run
    service,            \* the endings the remote service produces
    cleanup,            \* the maintenance utility: where it is, what it deleted
    cost,               \* one calculate_cost call: its arguments and its result
    formatting          \* process_files: its runs, its counters, what it found

\* what no step of the dispatcher changes
cfg_vars == <<input_dir, concurrency, max_rpm, max_items, shuffle, run_limit,
              tick_limit, service, cleanup, cost, formatting>>

item_vars == <<video_files, fut, result, outcome, calls, pv_errors, failed_log>>

worker_vars == <<pc, task, wake, seen, done_at>>

rate_vars == <<rpm_lock, request_timestamps, admitted, grants, admitted_items>>

clock_vars == <<now, ticks, main_wake>>

vars == <<input_dir, output_dir, concurrency, max_rpm, max_items, shuffle, run,
          phase, video_files, fut, result, outcome, pc, task, wake, seen,
          done_at, rpm_lock, request_timestamps, now, ticks, main_wake,
          calls, pv_errors, failed_log, admitted, grants, admitted_items,
          writers, selected,
          run_limit, tick_limit,
          service, cleanup, cost, formatting>>

Workers == 1..MaxConfig

Items == 1..Len(video_files)

\* main.py:278: request_delay_seconds, here one second
request_delay == 1

(***************************************************************************)
(* The Work Selector: get_video_files.                                     *)
(***************************************************************************)
\* os.listdir of a directory holding the names in dir
ListDir(dir) ==
    LET Present(f) == f \in dir IN SelectSeq(FileUniverse, Present)

\* main.py:43
all_videos(dir) ==
    LET IsVideo(f) == EndsWithAny(Lower(f), VideoSuffixes)
    IN  SelectSeq(ListDir(dir), IsVideo)

\* a selector that takes no artifact for done
processed_none(out) == {}

\* main.py:48
processed_videos(out) ==
    {splitext0(f) : f \in {g \in DOMAIN out : EndsWith(g, <<".json">>)}}

\* main.py:50
videos_to_process(dir, out) ==
    LET Todo(v) == splitext0(v) \notin processed_videos(out)
    IN  SelectSeq(all_videos(dir), Todo)

Take(s, n) == SubSeq(s, 1, Min({n, Len(s)}))

\* main.py:37-55: every list get_video_files can return
get_video_files(dir, out, limit, shuffled) ==
    LET todo == videos_to_process(dir, out)
    IN  IF shuffled
        THEN {Take([i \in 1..Len(todo) |-> p[i]], limit) : p \in Orderings(todo)}
        ELSE {Take(todo, limit)}

(***************************************************************************)
(* The initial state: a fresh corpus and one configuration.                *)
(***************************************************************************)
\* texts the service answers with in a dispatcher run
ResponseSamples == { <<>>, <<"{", "k", "}">>, <<"x">> }

\* how a call can end: what process_video returns and the error lines it logs
\*   ok            status 200, the content is read (main.py:176-185, 233)
\*   bad_content   status 200, reading the content raises (main.py:186-188)
\*   rate_limited  status 429 (main.py:171-173, 234-236)
\*   api_error     another status (main.py:171, 174, 234-236)
CallEndings ==
    {[how |-> "ok", result |-> r, errors |-> 0] : r \in ResponseSamples}
    \cup {[how |-> "bad_content", result |-> None, errors |-> 1],
          [how |-> "rate_limited", result |-> None, errors |-> 2],
          [how |-> "api_error", result |-> None, errors |-> 2]}

NoItems == [i \in {} |-> None]

\* a thread that is not between its capacity check and its append
NoCheck == [len |-> -1]

\* no time: a thread that has not finished an item
NoTime == -1

\* no calculate_cost call is looked at
NoCost == [pc |-> "off"]

\* process_files is not run
NoFormat == [pc |-> "off"]

\* the rpm budget when settings.json names none: main.py:282
DefaultRpm == 60

\* the state every run starts from
Fresh ==
    /\ cleanup = [pc |-> "off", before |-> {}, remove_fails |-> {}]
    /\ run = 0
    /\ phase = "idle"
    /\ video_files = <<>>
    /\ fut = NoItems
    /\ result = NoItems
    /\ outcome = NoItems
    /\ pc = [w \in Workers |-> "idle"]
    /\ task = [w \in Workers |-> 0]
    /\ wake = [w \in Workers |-> 0]
    /\ seen = [w \in Workers |-> NoCheck]
    /\ done_at = [w \in Workers |-> NoTime]
    /\ rpm_lock = 0
    /\ grants = <<>>
    /\ admitted_items = {}
    /\ request_timestamps = <<>>
    /\ now = 0
    /\ ticks = 0
    /\ main_wake = 0
    /\ calls = NoItems
    /\ pv_errors = NoItems
    /\ failed_log = NoItems
    /\ admitted = <<>>
    /\ writers = {}
    /\ selected = [todo |-> {}, existing |-> {}, complete |-> {}, chosen |-> {},
                   failed_before |-> {}, after_abort |-> FALSE]

\* repeated runs over one corpus, any ending of a call, the default budget
Init ==
    /\ Fresh
    /\ cost = NoCost
    /\ formatting = NoFormat
    /\ input_dir = Range(InputListing)
    /\ output_dir = EmptyDict
    /\ concurrency \in 1..MaxConfig
    /\ max_rpm = DefaultRpm
    /\ max_items \in 1..Len(all_videos(Range(InputListing)))
    /\ shuffle \in BOOLEAN
    /\ run_limit = MaxRuns
    /\ tick_limit = 0
    /\ service = CallEndings

\* one run under a tight request budget, with the clock free to move
InitRate ==
    /\ Fresh
    /\ cost = NoCost
    /\ formatting = NoFormat
    /\ input_dir = Range(InputListing)
    /\ output_dir = EmptyDict
    /\ concurrency \in 1..MaxConfig
    /\ max_rpm \in 1..MaxConfig
    /\ max_items = Len(InputListing)
    /\ shuffle = FALSE
    /\ run_limit = 1
    /\ tick_limit = MaxTicks
    /\ service = {e \in CallEndings :
                    \/ e.how = "rate_limited"
                    \/ e.how = "ok" /\ e.result = <<"{", "k", "}">>}

\* runs that may be terminated, over a corpus that fits into one batch
InitAbort ==
    /\ Fresh
    /\ cost = NoCost
    /\ formatting = NoFormat
    /\ input_dir = Range(InputListing)
    /\ output_dir = EmptyDict
    /\ concurrency \in 1..MaxConfig
    /\ max_rpm = DefaultRpm
    /\ max_items = Len(InputListing)
    /\ shuffle \in BOOLEAN
    /\ run_limit = MaxRuns
    /\ tick_limit = 0
    /\ service = {e \in CallEndings :
                    \/ e.how = "api_error"
                    \/ e.how = "ok" /\ e.result = <<"{", "k", "}">>}

\* the texts the normalizer is tried on: an opening, a body and an ending
NormOpenings == { <<>>, FenceJson \o <<NL>>, Fence \o <<NL>>, <<"x">> }

NormBodies ==
    { <<>>, <<"{", "k", "}">>, <<"{", "k", ",", "u", "}">>, <<"{", "k", ",", "}">>,
      <<"{", "x", "}">>, <<"x">>, <<"{">>, <<"}", "{">>,
      <<"{", "k", "}", "x", "{", "k", "}">>, <<"{", NL, "k", NL, "}">> }

NormEndings == { <<>>, <<NL>> \o Fence, <<"x">> }

NormSamples == {o \o b \o e : o \in NormOpenings, b \in NormBodies, e \in NormEndings}

\* one run over one video whose call succeeds with any of the sample texts
InitNorm ==
    /\ Fresh
    /\ cost = NoCost
    /\ formatting = NoFormat
    /\ input_dir = {FileUniverse[1]}
    /\ output_dir = EmptyDict
    /\ concurrency = 1
    /\ max_rpm = DefaultRpm
    /\ max_items = 1
    /\ shuffle = FALSE
    /\ run_limit = 1
    /\ tick_limit = 0
    /\ service = {[how |-> "ok", result |-> r, errors |-> 0] : r \in NormSamples}

\* the file names the maintenance utility is tried on
CleanInputs ==
    { <<"a", ".mp4">>, <<"a", ".mov">>, <<"a", "_analysis", ".mp4">>, <<"b", ".mov">> }

CleanCaptions ==
    { <<"a", ".json">>, <<"a", "_analysis", ".json">>, <<"b", ".json">>,
      <<"b", "_analysis", ".json">> }

\* the utility is about to run over any of these directories
InitClean ==
    /\ Fresh
    /\ cost = NoCost
    /\ formatting = NoFormat
    /\ input_dir \in SUBSET CleanInputs
    /\ \E names \in SUBSET CleanCaptions : output_dir = [f \in names |-> Metadata]
    /\ concurrency = 1
    /\ max_rpm = DefaultRpm
    /\ max_items = 1
    /\ shuffle = FALSE
    /\ run_limit = 0
    /\ tick_limit = 0
    /\ service = {}

\* the files process_files is tried on: their names (the one main.py gives an
\* artifact, and two that end in JSON_SUFFIX) and their contents (JSON objects
\* as main.py writes them, with and without a trailing comma, and text that
\* is no JSON)
FormatNames ==
    { <<"a", ".json">>, <<"a", "_analysis", ".json">>, <<"b", "_analysis", ".json">> }

FormatSamples ==
    { <<"{", "k", ",", "u", ",", "f", "}">>, <<"{", NL, "k", NL, "}">>,
      <<"{", "k", ",", "u", ",", NL, "}">>, <<"{", "k", ",", ",", "}">>,
      <<"{", "x", "}">>, <<"{", "}">> }

\* process_files is about to run over any of these captions directories
InitFormat ==
    /\ Fresh
    /\ cost = NoCost
    /\ formatting = [pc |-> "ready", applied |-> 0, before |-> EmptyDict,
                      processed_count |-> 0, fixed_count |-> 0, error_count |-> 0]
    /\ input_dir = {}
    /\ \E names \in SUBSET FormatNames : output_dir \in [names -> FormatSamples]
    /\ concurrency = 1
    /\ max_rpm = DefaultRpm
    /\ max_items = 1
    /\ shuffle = FALSE
    /\ run_limit = 0
    /\ tick_limit = 0
    /\ service = {}

\* the token counts and model names calculate_cost is tried on
TokenSamples ==
    UNION {Max2(b - TokenSpread, 0)..(b + TokenSpread) :
              b \in {0, TierOneLimit, TierTwoLimit}}

ModelSamples ==
    { <<"qwen3-vl-flash">>, <<"Qwen3-VL-Flash", "-2025">>, <<"qwen-vl-max">>,
      <<"qwen3-vl-plus">>, <<"qwen-vl-plus", "-latest">>, <<"qwen-vl-turbo">>,
      <<"qwen-vl-turbo", "qwen-vl-max">>, <<"gpt-4o">> }

\* a usage report of the service is about to be priced
InitCost ==
    /\ Fresh
    /\ formatting = NoFormat
    /\ \E it \in TokenSamples, ot \in 0..TokenSpread, m \in ModelSamples :
          cost = [pc |-> "ready", input_tokens |-> it, output_tokens |-> ot,
                  model |-> m]
    /\ input_dir = {}
    /\ output_dir = EmptyDict
    /\ concurrency = 1
    /\ max_rpm = DefaultRpm
    /\ max_items = 1
    /\ shuffle = FALSE
    /\ run_limit = 0
    /\ tick_limit = 0
    /\ service = {}

(***************************************************************************)
(* main(): lines 238-324, up to the submission of the batch.               *)
(***************************************************************************)
StartRun ==
    /\ phase \in {"idle", "aborted"}
    /\ run < run_limit
    /\ \E batch \in get_video_files(input_dir, output_dir, max_items, shuffle) :
          /\ video_files' = batch
          /\ selected' =
                [todo   |-> Range(videos_to_process(input_dir, output_dir)),
                 existing |-> DOMAIN output_dir,
                 complete |-> {f \in DOMAIN output_dir : output_dir[f] # Partial},
                 chosen |-> Range(batch),
                 failed_before |-> {video_files[i] : i \in {j \in Items : ~Truthy(result[j])}},
                 after_abort |-> phase = "aborted"]
          /\ phase' = IF batch = <<>> THEN "idle" ELSE "running"
          /\ fut' = [i \in 1..Len(batch) |-> "pending"]
          /\ result' = [i \in 1..Len(batch) |-> None]
          /\ outcome' = [i \in 1..Len(batch) |-> "pending"]
          /\ calls' = [i \in 1..Len(batch) |-> 0]
          /\ pv_errors' = [i \in 1..Len(batch) |-> 0]
          /\ failed_log' = [i \in 1..Len(batch) |-> 0]
    /\ run' = run + 1
    /\ pc' = [w \in Workers |-> "idle"]
    /\ task' = [w \in Workers |-> 0]
    /\ wake' = [w \in Workers |-> 0]
    /\ seen' = [w \in Workers |-> NoCheck]
    /\ done_at' = [w \in Workers |-> NoTime]
    /\ rpm_lock' = 0
    /\ request_timestamps' = <<>>
    /\ admitted' = <<>>
    /\ grants' = <<>>
    /\ admitted_items' = {}
    /\ now' = 0
    /\ ticks' = 0
    /\ main_wake' = 0
    /\ UNCHANGED <<cfg_vars, output_dir, writers>>

(***************************************************************************)
(* The worker pool: ThreadPoolExecutor(max_workers=concurrency).           *)
(***************************************************************************)
\* a pool one thread larger than configured
max_workers_one_more == concurrency + 1

\* main.py:323
max_workers == concurrency

\* a thread that calls process_video before wait_for_rate_limits
TakeTask_unadmitted(w) ==
    /\ phase = "running"
    /\ w <= max_workers
    /\ pc[w] = "idle"
    /\ \A v \in 1..(w - 1) : pc[v] # "idle"
    /\ \E i \in Items :
          /\ fut[i] = "pending"
          /\ \A j \in Items : fut[j] = "pending" => i <= j
          /\ fut' = [fut EXCEPT ![i] = "running"]
          /\ task' = [task EXCEPT ![w] = i]
    /\ pc' = [pc EXCEPT ![w] = "call"]
    /\ UNCHANGED <<cfg_vars, output_dir, run, phase, video_files, result, outcome,
                   calls, pv_errors, failed_log, wake, seen, done_at, rate_vars,
                   clock_vars, writers, selected>>

\* a pool thread takes the oldest submitted item that no thread has taken;
\* the threads are interchangeable, so the idle one of lowest number takes it
TakeTask(w) ==
    /\ phase = "running"
    /\ w <= max_workers
    /\ pc[w] = "idle"
    /\ \A v \in 1..(w - 1) : pc[v] # "idle"
    /\ \E i \in Items :
          /\ fut[i] = "pending"
          /\ \A j \in Items : fut[j] = "pending" => i <= j
          /\ fut' = [fut EXCEPT ![i] = "running"]
          /\ task' = [task EXCEPT ![w] = i]
    /\ pc' = [pc EXCEPT ![w] = "admit"]
    /\ UNCHANGED <<cfg_vars, output_dir, run, phase, video_files, result, outcome,
                   calls, pv_errors, failed_log, wake, seen, done_at, rate_vars,
                   clock_vars, writers, selected>>

(***************************************************************************)
(* wait_for_rate_limits: main.py:298-314.                                  *)
(***************************************************************************)
\* main.py:303-304: drop timestamps from the left while the leftmost is
\* older than the window, that is, up to the first one that is not
Evict(stamps, current_time) ==
    LET recent == {i \in 1..Len(stamps) : ~(current_time - stamps[i] > Window)}
    IN  IF recent = {} THEN <<>>
        ELSE SubSeq(stamps, Min(recent), Len(stamps))

\* main.py:305-306
wait_time_rpm(stamps, current_time, budget) ==
    IF Len(stamps) >= budget
    THEN Max2(0, stamps[1] + Window - current_time)
    ELSE 0

\* a lock that is taken and never given back
lock_kept(w) == w

\* `with rpm_lock:` gives the lock back when its block is left
lock_after_with(w) == 0

\* main.py:301 and main.py:313: `with rpm_lock:` takes the lock when it is
\* free; the second block is reached at once or when time.sleep has returned
EnterLock(w) ==
    /\ rpm_lock = 0
    /\ \/ pc[w] = "admit" /\ pc' = [pc EXCEPT ![w] = "check"]
       \/ /\ \/ pc[w] = "append"
             \/ pc[w] = "sleep" /\ now >= wake[w]
          /\ pc' = [pc EXCEPT ![w] = "stamp"]
    /\ rpm_lock' = w
    /\ UNCHANGED <<cfg_vars, output_dir, run, phase, item_vars, task, wake, seen,
                   done_at, request_timestamps, admitted, grants, admitted_items,
                   clock_vars, writers, selected>>

\* main.py:301-311: the body of the first `with rpm_lock` block; after it
\* the thread sleeps when it has to wait
AdmitCheck(w) ==
    /\ pc[w] = "check"
    /\ rpm_lock = w
    /\ LET kept == Evict(request_timestamps, now)
           wait_time == Max2(wait_time_rpm(kept, now, max_rpm), 0)
       IN  /\ request_timestamps' = kept
           /\ seen' = [seen EXCEPT ![w] =
                         [len |-> Len(kept), appends |-> Len(admitted),
                          slept |-> wait_time > 0]]
           /\ IF wait_time > 0
              THEN /\ pc' = [pc EXCEPT ![w] = "sleep"]
                   /\ wake' = [wake EXCEPT ![w] = now + wait_time]
              ELSE /\ pc' = [pc EXCEPT ![w] = "append"]
                   /\ UNCHANGED wake
    /\ rpm_lock' = lock_after_with(w)
    /\ UNCHANGED <<cfg_vars, output_dir, run, phase, item_vars, task, done_at,
                   admitted, grants, admitted_items, clock_vars, writers,
                   selected>>

\* main.py:313-321: the body of the second `with rpm_lock` block appends
\* time.time(); process_video is called next
AppendStamp(w) ==
    /\ pc[w] = "stamp"
    /\ rpm_lock = w
    /\ request_timestamps' = Append(request_timestamps, now)
    /\ admitted' = Append(admitted, now)
    /\ grants' = Append(grants, seen[w])
    /\ admitted_items' = admitted_items \cup {task[w]}
    /\ seen' = [seen EXCEPT ![w] = NoCheck]
    /\ rpm_lock' = lock_after_with(w)
    /\ pc' = [pc EXCEPT ![w] = "call"]
    /\ UNCHANGED <<cfg_vars, output_dir, run, phase, item_vars, task, wake, done_at,
                   clock_vars, writers, selected>>

(***************************************************************************)
(* process_video: main.py:112-236.                                         *)
(***************************************************************************)
\* a pool worker that writes the artifact of its item itself
process_video_writes(w) ==
    /\ pc[w] = "call"
    /\ \E e \in service :
          /\ result' = [result EXCEPT ![task[w]] = e.result]
          /\ outcome' = [outcome EXCEPT ![task[w]] = e.how]
          /\ pv_errors' = [pv_errors EXCEPT ![task[w]] = @ + e.errors]
          /\ IF e.result # <<"None">> /\ e.result # <<>>
             THEN /\ output_dir' =
                        [f \in DOMAIN output_dir \cup {<<video_files[task[w]][1], ".json">>}
                           |-> IF f = <<video_files[task[w]][1], ".json">>
                               THEN [key \in {"caption"} |-> e.result]
                               ELSE output_dir[f]]
                  /\ writers' = writers \cup
                        {[item |-> video_files[task[w]],
                          path |-> <<video_files[task[w]][1], ".json">>]}
             ELSE UNCHANGED <<output_dir, writers>>
    /\ calls' = [calls EXCEPT ![task[w]] = @ + 1]
    /\ fut' = [fut EXCEPT ![task[w]] = "finished"]
    /\ pc' = [pc EXCEPT ![w] = "idle"]
    /\ done_at' = [done_at EXCEPT ![w] = now]
    /\ UNCHANGED <<cfg_vars, run, phase, video_files, failed_log, task,
                   wake, seen, rate_vars, clock_vars, selected>>

\* a call that is rejected with 429 and tried again by the same thread
process_video_retry(w) ==
    /\ pc[w] = "call"
    /\ \E e \in service :
          /\ result' = [result EXCEPT ![task[w]] = e.result]
          /\ outcome' = [outcome EXCEPT ![task[w]] = e.how]
          /\ pv_errors' = [pv_errors EXCEPT ![task[w]] = @ + e.errors]
          /\ fut' = [fut EXCEPT ![task[w]] =
                        IF e.how = "rate_limited" THEN @ ELSE "finished"]
          /\ pc' = [pc EXCEPT ![w] = IF e.how = "rate_limited" THEN @ ELSE "idle"]
    /\ calls' = [calls EXCEPT ![task[w]] = @ + 1]
    /\ done_at' = [done_at EXCEPT ![w] = now]
    /\ UNCHANGED <<cfg_vars, output_dir, run, phase, video_files, failed_log, task,
                   wake, seen, rate_vars, clock_vars, writers, selected>>

process_video(w) ==
    /\ pc[w] = "call"
    /\ \E e \in service :
          /\ result' = [result EXCEPT ![task[w]] = e.result]
          /\ outcome' = [outcome EXCEPT ![task[w]] = e.how]
          /\ pv_errors' = [pv_errors EXCEPT ![task[w]] = @ + e.errors]
    /\ calls' = [calls EXCEPT ![task[w]] = @ + 1]
    /\ fut' = [fut EXCEPT ![task[w]] = "finished"]
    /\ pc' = [pc EXCEPT ![w] = "idle"]
    /\ done_at' = [done_at EXCEPT ![w] = now]
    /\ UNCHANGED <<cfg_vars, output_dir, run, phase, video_files, failed_log, task,
                   wake, seen, rate_vars, clock_vars, writers, selected>>

(***************************************************************************)
(* The main thread: the as_completed loop, main.py:326-366.                *)
(***************************************************************************)
\* open(output_path, 'w') and json.dump: the file is created or replaced
WriteFile(dir, name, data) ==
    [f \in DOMAIN dir \cup {name} |-> IF f = name THEN data ELSE dir[f]]

\* a loop that gives the batch up at the first failed item
Collect_fail_fast(i) ==
    /\ phase = "running"
    /\ fut[i] = "finished"
    /\ now >= main_wake
    /\ IF Truthy(result[i]) /\ output_data(result[i]) # Raised
       THEN /\ output_dir' = WriteFile(output_dir, output_path(video_files[i]),
                                       output_data(result[i]))
            /\ writers' = writers \cup
                  {[item |-> video_files[i], path |-> output_path(video_files[i])]}
            /\ UNCHANGED <<failed_log, phase>>
       ELSE /\ failed_log' = [failed_log EXCEPT ![i] = @ + 1]
            /\ phase' = "idle"
            /\ UNCHANGED <<output_dir, writers>>
    /\ fut' = [fut EXCEPT ![i] = "collected"]
    /\ main_wake' = now + request_delay
    /\ UNCHANGED <<cfg_vars, run, video_files, result, outcome, calls,
                   pv_errors, worker_vars, rate_vars, now, ticks, selected>>

\* a loop that writes the error envelope for a failed item
Collect_marks_failure(i) ==
    /\ phase = "running"
    /\ fut[i] = "finished"
    /\ now >= main_wake
    /\ output_dir' = WriteFile(output_dir, output_path(video_files[i]),
                        IF Truthy(result[i]) THEN output_data(result[i])
                        ELSE Merge(Envelope(<<>>), Metadata))
    /\ writers' = writers \cup
          {[item |-> video_files[i], path |-> output_path(video_files[i])]}
    /\ failed_log' = [failed_log EXCEPT ![i] = IF Truthy(result[i]) THEN @ ELSE @ + 1]
    /\ fut' = [fut EXCEPT ![i] = "collected"]
    /\ main_wake' = now + request_delay
    /\ UNCHANGED <<cfg_vars, run, phase, video_files, result, outcome, calls,
                   pv_errors, worker_vars, rate_vars, now, ticks, selected>>

\* one turn of the loop: normalization, the write or the failure line, and
\* the start of the pacing sleep
Collect(i) ==
    /\ phase = "running"
    /\ fut[i] = "finished"
    /\ now >= main_wake
    /\ IF Truthy(result[i]) /\ output_data(result[i]) # Raised
       THEN \* main.py:358-360
            /\ output_dir' = WriteFile(output_dir, output_path(video_files[i]),
                                       output_data(result[i]))
            /\ writers' = writers \cup
                  {[item |-> video_files[i], path |-> output_path(video_files[i])]}
            /\ UNCHANGED failed_log
       ELSE \* main.py:362 (falsy result) or main.py:364 (exception)
            /\ failed_log' = [failed_log EXCEPT ![i] = @ + 1]
            /\ UNCHANGED <<output_dir, writers>>
    /\ fut' = [fut EXCEPT ![i] = "collected"]
    /\ main_wake' = now + request_delay
    /\ UNCHANGED <<cfg_vars, run, phase, video_files, result, outcome, calls,
                   pv_errors, worker_vars, rate_vars, now, ticks, selected>>

\* the loop ends after the pacing sleep of the last item; main() returns
FinishRun ==
    /\ phase = "running"
    /\ \A i \in Items : fut[i] = "collected"
    /\ now >= main_wake
    /\ phase' = "idle"
    /\ UNCHANGED <<cfg_vars, output_dir, run, item_vars, worker_vars, rate_vars,
                   clock_vars, writers, selected>>

\* The process is terminated in the middle of a run: at any point, or while
\* the main thread is between open(output_path, 'w') and the end of
\* json.dump (main.py:358-359), which leaves a file without its content.
Terminate ==
    /\ phase = "running"
    /\ \/ UNCHANGED output_dir
       \/ \E i \in Items :
             /\ fut[i] = "finished"
             /\ now >= main_wake
             /\ Truthy(result[i]) /\ output_data(result[i]) # Raised
             /\ output_dir' = WriteFile(output_dir, output_path(video_files[i]),
                                        Partial)
    /\ phase' = "aborted"
    /\ UNCHANGED <<cfg_vars, run, item_vars, worker_vars, rate_vars, clock_vars,
                   writers, selected>>

(***************************************************************************)
(* The clock.  It moves to the next moment a sleeping thread wakes up, or  *)
(* by one second while some thread is about to read it (at most            *)
(* tick_limit times in a run).  No time passes inside a `with rpm_lock`    *)
(* block: no statement in it blocks.                                       *)
(***************************************************************************)
ClockReaders == {w \in Workers : pc[w] \in {"admit", "append", "sleep"}}

PendingWakes ==
    {wake[w] : w \in {v \in Workers : pc[v] = "sleep" /\ wake[v] > now}}
    \cup (IF main_wake > now THEN {main_wake} ELSE {})

AdvanceTime ==
    /\ phase = "running"
    /\ rpm_lock = 0
    /\ \/ /\ PendingWakes # {}
          /\ now' = Min(PendingWakes)
          /\ UNCHANGED ticks
       \/ /\ ticks < tick_limit
          /\ ClockReaders # {}
          /\ PendingWakes # {} => now + 1 < Min(PendingWakes)
          /\ now' = now + 1
          /\ ticks' = ticks + 1
    /\ UNCHANGED <<cfg_vars, output_dir, run, phase, item_vars, worker_vars,
                   rate_vars, main_wake, writers, selected>>

(***************************************************************************)
(* The maintenance utility: clean_and_format_captions.py.                  *)
(***************************************************************************)
\* clean_and_format_captions.py:9-10
VIDEO_EXT == <<".mp4">>

JSON_SUFFIX == <<"_analysis", ".json">>

\* str.replace(old, ''): every occurrence of old is taken out, left to right
RECURSIVE Remove(_, _)
Remove(name, old) ==
    IF Len(name) < Len(old) THEN name
    ELSE IF SubSeq(name, 1, Len(old)) = old
         THEN Remove(SubSeq(name, Len(old) + 1, Len(name)), old)
         ELSE <<Head(name)>> \o Remove(Tail(name), old)

\* clean_and_format_captions.py:31-35: the files the loop tries to delete
orphans(captions, inputs) ==
    {f \in captions :
        /\ EndsWith(f, JSON_SUFFIX)
        /\ (Remove(f, JSON_SUFFIX) \o VIDEO_EXT) \notin inputs}

\* clean_and_format_captions.py:20-44, both directories existing; os.remove
\* raises OSError for the files in fails, which stay where they are
clean_orphans ==
    /\ cleanup.pc = "off"
    /\ run_limit = 0
    /\ \E fails \in SUBSET orphans(DOMAIN output_dir, input_dir) :
          LET gone == orphans(DOMAIN output_dir, input_dir) \ fails IN
          /\ output_dir' = [f \in DOMAIN output_dir \ gone |-> output_dir[f]]
          /\ cleanup' = [pc |-> "done", before |-> DOMAIN output_dir,
                         remove_fails |-> fails]
    /\ UNCHANGED <<input_dir, concurrency, max_rpm, max_items, shuffle, run_limit,
                   tick_limit, service, run, phase, item_vars, worker_vars,
                   rate_vars, clock_vars, writers, selected, cost, formatting>>

\* clean_and_format_captions.py:12-18: re.sub(r',(\s*[}\]])', r'\1', content)
\* takes out every comma that only white space parts from a closing brace
\* or bracket
fix_json_content(content) ==
    LET After(i) == {j \in (i + 1)..Len(content) : content[j] # NL}
        Trailing(i) ==
            /\ content[i] = ","
            /\ After(i) # {}
            /\ content[Min(After(i))] \in {"}", "]"}
        kept == {i \in 1..Len(content) : ~Trailing(i)}
        Nth(n) == CHOOSE i \in kept : Cardinality({j \in kept : j < i}) = n - 1
    IN  [n \in 1..Cardinality(kept) |-> content[Nth(n)]]

\* clean_and_format_captions.py:54
keys_to_remove == {"usage_metadata", "file_metadata"}

\* json.dump(data, f, indent=2): one member a line.  A dict of the model
\* keeps no order of its keys; the members are written in one fixed order.
json_dump(data) ==
    LET chars == SelectSeq(<<"k", "u", "f">>,
                           LAMBDA ch : MemberKey(ch) \in DOMAIN data)
        Line(n) == IF n < Len(chars) THEN <<NL, chars[n], ",">> ELSE <<NL, chars[n]>>
        Lines[n \in 0..Len(chars)] == IF n = 0 THEN <<>> ELSE Lines[n - 1] \o Line(n)
    IN  IF chars = <<>> THEN <<"{", "}">>
        ELSE <<"{">> \o Lines[Len(chars)] \o <<NL, "}">>

\* clean_and_format_captions.py:67-95, one turn of the loop over a file that
\* can be read and written: json.loads, the repair and the second
\* json.loads, the two keys taken out, the file written back
format_one(content) ==
    LET Strip(data) == [key \in DOMAIN data \ keys_to_remove |-> data[key]]
    IN  IF JsonParses(content)
        THEN [how |-> "processed", text |-> json_dump(Strip(JsonObject(content)))]
        ELSE IF JsonParses(fix_json_content(content))
        THEN [how |-> "fixed",
              text |-> json_dump(Strip(JsonObject(fix_json_content(content))))]
        ELSE [how |-> "error", text |-> content]

\* clean_and_format_captions.py:46-104: one run of process_files over the
\* captions directory
process_files ==
    /\ formatting.pc = "ready"
    /\ formatting.applied < MaxRuns
    /\ LET names == {f \in DOMAIN output_dir : EndsWith(f, JSON_SUFFIX)}
           Outcome(f) == format_one(output_dir[f])
       IN  /\ output_dir' = [f \in DOMAIN output_dir |->
                                IF f \in names THEN Outcome(f).text ELSE output_dir[f]]
           /\ formatting' =
                 [pc |-> "ready",
                  applied |-> formatting.applied + 1,
                  before |-> output_dir,
                  processed_count |->
                      Cardinality({f \in names : Outcome(f).how # "error"}),
                  fixed_count |-> Cardinality({f \in names : Outcome(f).how = "fixed"}),
                  error_count |-> Cardinality({f \in names : Outcome(f).how = "error"})]
    /\ UNCHANGED <<input_dir, concurrency, max_rpm, max_items, shuffle, run_limit,
                   tick_limit, service, cleanup, cost, run, phase, item_vars,
                   worker_vars, rate_vars, clock_vars, writers, selected>>

\* main.py:196: process_video prices the usage of a response
CalculateCost ==
    /\ cost.pc = "ready"
    /\ cost' = [pc |-> "done", input_tokens |-> cost.input_tokens,
                output_tokens |-> cost.output_tokens, model |-> cost.model,
                info |-> calculate_cost(cost.input_tokens, cost.output_tokens,
                                        cost.model)]
    /\ UNCHANGED <<input_dir, output_dir, concurrency, max_rpm, max_items, shuffle,
                   run_limit, tick_limit, service, cleanup, run, phase, item_vars,
                   worker_vars, rate_vars, clock_vars, writers, selected,
                   formatting>>

Next ==
    \/ StartRun
    \/ \E w \in Workers : TakeTask(w)
    \/ \E w \in Workers : EnterLock(w)
    \/ \E w \in Workers : AdmitCheck(w)
    \/ \E w \in Workers : AppendStamp(w)
    \/ \E w \in Workers : process_video(w)
    \/ \E i \in Items : Collect(i)
    \/ FinishRun
    \/ AdvanceTime

Spec == Init /\ [][Next]_vars

SpecRate == InitRate /\ [][Next]_vars

SpecNorm == InitNorm /\ [][Next]_vars

NextAbort == Next \/ Terminate

SpecAbort == InitAbort /\ [][NextAbort]_vars

NextClean == clean_orphans

SpecClean == InitClean /\ [][NextClean]_vars

NextFormat == process_files

SpecFormat == InitFormat /\ [][NextFormat]_vars

NextCost == CalculateCost

SpecCost == InitCost /\ [][NextCost]_vars

\* Every thread that can take a step is scheduled, sleeps end, calls return.
Fairness ==
    /\ WF_vars(StartRun)
    /\ \A w \in Workers :
          /\ WF_vars(TakeTask(w))
          /\ WF_vars(EnterLock(w))
          /\ WF_vars(AdmitCheck(w))
          /\ WF_vars(AppendStamp(w))
          /\ WF_vars(process_video(w))
    /\ WF_vars(\E i \in Items : Collect(i))
    /\ WF_vars(FinishRun)
    /\ WF_vars(AdvanceTime)

FairSpecRate == SpecRate /\ Fairness

(***************************************************************************)
(* Properties.                                                             *)
(***************************************************************************)
RunOver == run >= 1 /\ phase = "idle"

Failing(i) == ~Truthy(result[i])

Raises(i) == outcome[i] \in {"rate_limited", "api_error", "bad_content"}

\* the admissions of this run that fall into the window starting at time t
InWindow(t) == {j \in 1..Len(admitted) : t <= admitted[j] /\ admitted[j] < t + Window}

\* C1: in every run, every 60-second window holds at most max_rpm admission
\* timestamps (it is enough to look at the windows that start at an admission).
C1_RateBudget ==
    \A i \in 1..Len(admitted) : Cardinality(InWindow(admitted[i])) <= max_rpm

HasArtifact(v) == output_path(v) \in DOMAIN output_dir

Wrote(v) == \E wr \in writers : wr.item = v

\* C2: after any number of runs no artifact has been written by the
\* processing of two different items: one output path, one item.
C2_AtMostOneArtifact ==
    \A a, b \in writers : a.path = b.path => a.item = b.item

\* C3: the second run over the same roots processes zero items.
C3_SecondRunEmpty == run = 2 => selected.chosen = {}

HadArtifact(v) == output_path(v) \in selected.existing

\* C3, amended: a run after the first processes no item whose artifact
\* existed when it started, so it processes zero items when every item had
\* its artifact by then.
C3_SecondRunSkipsDone ==
    run >= 2 =>
        /\ \A v \in selected.chosen : ~HadArtifact(v)
        /\ (\A v \in Range(all_videos(input_dir)) : HadArtifact(v))
              => selected.chosen = {}

\* a second run that found an artifact for every item and selected nothing
C3_Witness ==
    /\ run = 2
    /\ selected.existing # {}
    /\ \A v \in Range(all_videos(input_dir)) : HadArtifact(v)
    /\ selected.chosen = {}

\* C4: when the run of a batch in which some call raised is over, every item
\* whose call succeeded has its artifact, no failing item has one, and
\* exactly one failure was logged for each failing item.
C4_PartialFailure ==
    (RunOver /\ \E i \in Items : Raises(i)) =>
        \A i \in Items :
            /\ outcome[i] = "ok" => HasArtifact(video_files[i])
            /\ Raises(i) => /\ ~HasArtifact(video_files[i])
                            /\ pv_errors[i] + failed_log[i] = 1

\* C4, amended: when the run of a batch is over, every item whose call
\* returned a non-empty text has its artifact and no failure line; an item
\* whose call raised or returned nothing has written no artifact at any
\* time, and the main loop has logged exactly one failure line for it (next
\* to the error lines process_video logs itself).
C4_PartialFailureAmended ==
    /\ \A i \in Items : fut[i] \in {"finished", "collected"} /\ Failing(i)
                           => ~Wrote(video_files[i])
    /\ RunOver =>
          \A i \in Items :
              /\ ~Failing(i) => HasArtifact(video_files[i]) /\ failed_log[i] = 0
              /\ Failing(i) => failed_log[i] = 1
              /\ Raises(i) => Failing(i) /\ pv_errors[i] \in {1, 2}

\* a finished batch with a successful item and an item whose call raised
C4_Witness ==
    /\ RunOver
    /\ \E i, j \in Items :
          /\ outcome[i] = "api_error" /\ failed_log[i] = 1 /\ ~Wrote(video_files[i])
          /\ outcome[j] = "ok" /\ ~Failing(j) /\ HasArtifact(video_files[j])

\* C5: an item whose call or normalization failed has no artifact in this
\* run, and the next run selects it again.
C5_FailedIsRetried ==
    /\ \A i \in Items : fut[i] = "collected" /\ Failing(i)
                           => ~HasArtifact(video_files[i])
    /\ run >= 2 => selected.failed_before \subseteq selected.chosen

\* C5, amended: the processing of an item whose call or normalization failed
\* writes no artifact; on the next run the item is eligible again unless an
\* artifact of its output name exists by then, and the eligible items are all
\* selected when they are not more than max_items.
C5_FailedStaysEligible ==
    /\ \A i \in Items : fut[i] = "collected" /\ Failing(i)
                           => ~Wrote(video_files[i])
    /\ run >= 2 =>
          /\ \A v \in selected.failed_before : ~HadArtifact(v) => v \in selected.todo
          /\ Cardinality(selected.todo) <= max_items
                => selected.todo \subseteq selected.chosen

\* a second run that selects an item which failed in the first
C5_Witness ==
    /\ run = 2
    /\ \E v \in selected.failed_before : v \in selected.chosen /\ ~HadArtifact(v)

InFlight == {w \in Workers : pc[w] = "call"}

\* C6: at every instant at most `concurrency` client calls are in flight.
C6_InFlightWithinConcurrency == Cardinality(InFlight) <= concurrency

\* two calls in flight under concurrency 2
C6_Witness == concurrency = 2 /\ Cardinality(InFlight) = 2

\* C7: within one run the client call of an item is never invoked twice, an
\* item whose future is done has been called once, and when the run is over
\* every selected item has been called exactly once.
C7_AttemptedExactlyOnce ==
    /\ \A i \in Items : calls[i] <= 1
    /\ \A i \in Items : fut[i] \in {"finished", "collected"} => calls[i] = 1
    /\ RunOver => \A i \in Items : fut[i] = "collected" /\ calls[i] = 1

\* a finished run of two items, one rejected with 429 and one successful
C7_Witness ==
    /\ RunOver
    /\ \E i, j \in Items :
          /\ outcome[i] = "rate_limited" /\ calls[i] = 1
          /\ outcome[j] = "ok" /\ calls[j] = 1

\* C8: every run that starts completes with every selected item collected
\* (artifact written or failure logged), and every worker that waits in
\* wait_for_rate_limits goes on to its client call.
C8_BatchTerminates ==
    /\ (phase = "running") ~> (RunOver /\ \A i \in Items : fut[i] = "collected")
    /\ \A w \in Workers : (pc[w] \in {"admit", "check", "sleep", "append", "stamp"})
                              ~> (pc[w] = "call")

\* a finished run in which a worker slept a whole window before its
\* admission and an item failed
C8_Witness ==
    /\ RunOver
    /\ \E j \in 1..Len(admitted) : admitted[j] >= Window
    /\ \E i \in Items : Raises(i) /\ failed_log[i] = 1

\* the dicts json.loads can return for a piece of the text
ParsedFrom(text) ==
    {JsonObject(SubSeq(text, p[1], p[2])) :
        p \in {q \in (1..Len(text)) \X (1..Len(text)) :
                  q[1] <= q[2] /\ JsonParses(SubSeq(text, q[1], q[2]))}}

\* C9: every item whose call succeeded gets a result object written, the
\* parsed object or the envelope of the raw text, whatever the text.
C9_NormalizerTotal ==
    \A i \in Items :
        fut[i] = "collected" /\ outcome[i] = "ok" =>
            /\ HasArtifact(video_files[i])
            /\ \/ output_dir[output_path(video_files[i])]
                     = Merge(Envelope(result[i]), Metadata)
               \/ \E d \in ParsedFrom(result[i]) :
                     output_dir[output_path(video_files[i])] = Merge(d, Metadata)

\* C9, amended: every item whose call succeeded with a non-empty text gets a
\* result object written, an object parsed from the text or the envelope of
\* the text left after the fence was cut off; an empty text gives no result
\* object, the item is logged as failed and nothing is written.
C9_NormalizerTotalNonEmpty ==
    \A i \in Items :
        fut[i] = "collected" /\ outcome[i] = "ok" =>
            IF result[i] = <<>>
            THEN ~HasArtifact(video_files[i]) /\ failed_log[i] = 1
            ELSE /\ HasArtifact(video_files[i])
                 /\ failed_log[i] = 0
                 /\ \/ output_dir[output_path(video_files[i])]
                          = Merge(Envelope(StripFence(result[i])), Metadata)
                    \/ \E d \in ParsedFrom(result[i]) :
                          output_dir[output_path(video_files[i])] = Merge(d, Metadata)

\* a fenced object was cut out of its fence, parsed and written
C9_Witness ==
    \E i \in Items :
        /\ fut[i] = "collected"
        /\ result[i] = FenceJson \o <<NL, "{", "k", "}", NL>> \o Fence
        /\ output_dir[output_path(video_files[i])]
              = Merge(JsonObject(<<"{", "k", "}">>), Metadata)

\* the input items an artifact belongs to: main.py:43, 328-329
ItemsOf(f) ==
    {v \in input_dir : EndsWithAny(Lower(v), VideoSuffixes) /\ output_path(v) = f}

\* C10: when no deletion failed, the cleanup has deleted exactly the
\* artifacts whose input item does not exist and kept the others.
C10_OrphanCleanup ==
    (cleanup.pc = "done" /\ cleanup.remove_fails = {}) =>
        \A f \in cleanup.before : (f \notin DOMAIN output_dir) <=> (ItemsOf(f) = {})

Prices(price_in, price_out, name) ==
    [input |-> price_in, output |-> price_out, name |-> name]

\* the rates the claim names for a call: the tier of the input tokens for
\* the tiered model, the default model's rates for a model of no table entry
C11_Rates ==
    IF InModel("qwen3-vl-flash", cost.model)
    THEN IF cost.input_tokens <= 32000
            THEN Prices(50, 400, "qwen3-vl-flash-tiered")
         ELSE IF 32001 <= cost.input_tokens /\ cost.input_tokens <= 128000
            THEN Prices(75, 600, "qwen3-vl-flash-tiered")
         ELSE Prices(120, 960, "qwen3-vl-flash-tiered")
    ELSE Prices(1120, 2800, "qwen-vl-plus")

\* C11: the tiered model is priced at the lowest bracket up to 32000 input
\* tokens, at the middle one from 32001 to 128000 and at the top one from
\* 128001; a model of no table entry is priced at the default model's rates.
C11_TieredPricing ==
    (/\ cost.pc = "done"
     /\ \/ InModel("qwen3-vl-flash", cost.model)
        \/ \A i \in 1..Len(pricing_keys) : ~InModel(pricing_keys[i], cost.model))
    => /\ cost.info.input_cost_usd = Round6(cost.input_tokens * C11_Rates.input)
       /\ cost.info.output_cost_usd = Round6(cost.output_tokens * C11_Rates.output)
       /\ cost.info.total_cost_usd =
             Round6(cost.input_tokens * C11_Rates.input
                    + cost.output_tokens * C11_Rates.output)
       /\ cost.info.pricing_model = C11_Rates.name

\* a call of the tiered model with 32001 input tokens, priced at the middle
\* bracket
C11_Witness ==
    /\ cost.pc = "done"
    /\ InModel("qwen3-vl-flash", cost.model)
    /\ cost.input_tokens = 32001
    /\ cost.output_tokens = 1
    /\ cost.info.input_cost_usd = 2400
    /\ cost.info.output_cost_usd = 1

\* C12: no two admissions of a run were granted on the same observation of
\* the window: the same number of entries, with no append in between.
C12_CheckAppendAtomic ==
    \A a, b \in 1..Len(grants) :
        a # b => ~(/\ grants[a].appends = grants[b].appends
                   /\ grants[a].len = grants[b].len)

\* C13: no timestamp is appended on a check that ended in a sleep: after the
\* sleep the window is checked again, and the append follows a check that
\* found room.
C13_RecheckAfterSleep == \A j \in 1..Len(grants) : ~grants[j].slept

\* C14: the deque never holds more than max_rpm entries; it grows only by
\* the append of an admission, so this is its length at every append.
C14_WindowLength == Len(request_timestamps) <= max_rpm

\* C15: a worker thread that has finished an item starts its next item no
\* sooner than request_delay later.
C15_WorkerPacing ==
    [][\A w \in Workers :
          (pc[w] = "idle" /\ pc'[w] = "admit" /\ done_at[w] # NoTime)
              => now >= done_at[w] + request_delay]_vars

\* C17: a thread holds rpm_lock only inside one of the two `with` blocks of
\* wait_for_rate_limits, never while it sleeps or is in its client call.
C17_LockOnlyInBlocks ==
    \A w \in Workers :
        /\ rpm_lock = w => pc[w] \in {"check", "stamp"}
        /\ pc[w] \in {"sleep", "call"} => rpm_lock # w

\* a thread holds the lock for its check while another is in its client call
\* and the lock was held for that one's admission before
C17_Witness ==
    \E w, v \in Workers :
        /\ rpm_lock = w /\ pc[w] = "check"
        /\ pc[v] = "call"
        /\ Len(grants) = 1

\* texts that are one valid JSON object
ValidBodies ==
    { <<"{", "k", "}">>, <<"{", "k", ",", "u", "}">>, <<"{", NL, "k", NL, "}">> }

\* C19: a response that is a valid object, after an opening fence or other
\* text or nothing and before a closing fence or other text or nothing, is
\* written as that object, not as the error envelope.
C19_NormalizerSalvage ==
    \A i \in Items :
        fut[i] = "collected" /\ outcome[i] = "ok" =>
            \A o \in NormOpenings, b \in ValidBodies, e \in NormEndings :
                result[i] = o \o b \o e =>
                    /\ HasArtifact(video_files[i])
                    /\ output_dir[output_path(video_files[i])]
                          = Merge(JsonObject(b), Metadata)

\* C16: a run that follows a terminated run selects every item for which no
\* complete artifact had been written.
C16_AbortSafety ==
    (run >= 2 /\ selected.after_abort) =>
        \A v \in Range(all_videos(input_dir)) :
            output_path(v) \notin selected.complete => v \in selected.chosen

\* C18: within a run, the client call of an item starts only after its
\* admission timestamp was appended, its result is normalized only after
\* the call has returned, and what is written for it is the normalization
\* of what the call returned.
C18_PerItemOrder ==
    [][run' = run =>
          /\ \A i \in Items :
                /\ calls'[i] > calls[i] => i \in admitted_items
                /\ (fut[i] # "collected" /\ fut'[i] = "collected")
                      => fut[i] = "finished" /\ calls[i] = 1
          /\ (output_dir' # output_dir /\ phase' = "running") =>
                \E i \in Items :
                    /\ fut[i] = "finished" /\ fut'[i] = "collected"
                    /\ output_dir' = WriteFile(output_dir, output_path(video_files[i]),
                                               output_data(result[i]))]_vars

\* an item that was admitted, called once, collected and written
C18_Witness ==
    \E i \in Items :
        /\ i \in admitted_items
        /\ calls[i] = 1
        /\ fut[i] = "collected"
        /\ outcome[i] = "ok" /\ Truthy(result[i])
        /\ output_dir[output_path(video_files[i])] = output_data(result[i])

\* what the claim says a file holds after a run of the utility that found
\* content in it
C20_Expected(content) ==
    LET repaired == IF JsonParses(content) THEN content ELSE fix_json_content(content)
        data     == JsonObject(repaired)
    IN  IF ~JsonParses(repaired) THEN content
        ELSE json_dump([key \in DOMAIN data \ {"usage_metadata", "file_metadata"}
                          |-> data[key]])

C20_Unparsable(dir) ==
    {f \in DOMAIN dir :
        ~JsonParses(dir[f]) /\ ~JsonParses(fix_json_content(dir[f]))}

\* C20: after a run of the utility every file that does not parse even after
\* the repair is as it was and is counted as an error, every other file is
\* rewritten without the two reserved keys and with every other key, and a
\* second run changes nothing.
C20_PerFileOutcome ==
    formatting.pc = "ready" /\ formatting.applied >= 1 =>
        /\ \A f \in DOMAIN formatting.before :
              output_dir[f] = C20_Expected(formatting.before[f])
        /\ formatting.error_count = Cardinality(C20_Unparsable(formatting.before))
        /\ formatting.applied >= 2 => output_dir = formatting.before

\* the same, for the files whose names end in JSON_SUFFIX only
C20_SuffixFilesOnly ==
    formatting.pc = "ready" /\ formatting.applied >= 1 =>
        LET names == {f \in DOMAIN formatting.before : EndsWith(f, JSON_SUFFIX)} IN
        /\ \A f \in names : output_dir[f] = C20_Expected(formatting.before[f])
        /\ formatting.error_count
              = Cardinality(C20_Unparsable(formatting.before) \cap names)
        /\ formatting.applied >= 2 => output_dir = formatting.before

\* C21: every step that writes an artifact is one turn of the collecting
\* loop of the main thread, which is awake and takes one finished future; no
\* pool worker moves in that step and no call returns in it, and the step
\* writes one file, whatever the concurrency.
C21_SingleWriter ==
    [][(output_dir' # output_dir \/ writers' # writers) =>
          /\ worker_vars' = worker_vars
          /\ calls' = calls /\ result' = result
          /\ phase = "running" /\ now >= main_wake
          /\ \E i \in Items :
                /\ fut[i] = "finished"
                /\ fut' = [fut EXCEPT ![i] = "collected"]
                /\ \A f \in DOMAIN output_dir' :
                      f # output_path(video_files[i]) =>
                          f \in DOMAIN output_dir /\ output_dir'[f] = output_dir[f]
                /\ writers' \ writers
                      \subseteq {[item |-> video_files[i],
                                   path |-> output_path(video_files[i])]}]_vars

\* an artifact is written in a run of two workers while a worker is inside
\* its call
C21_Witness ==
    /\ run = 1 /\ phase = "running"
    /\ concurrency >= 2
    /\ writers # {}
    /\ \E w \in Workers : pc[w] = "call"

\* C22: any two distinct items of one batch have distinct output paths.
C22_DistinctOutputKeys ==
    \A i, j \in Items :
        i # j => output_path(video_files[i]) # output_path(video_files[j])

====
